---- MODULE Spec2Model ----
(***************************************************************************)
(* King-safety evaluation of projectAccounth/chessengine (src/main.cpp)    *)
(* over the chesscpp board interface (src/dependencies/chesscpp/include).  *)
(*                                                                         *)
(* Squares are the values 0..63 of enum class square (a8 = 0 .. h1 = 63).  *)
(* Real-valued results are kept as scaled integers: the enemy-attack score *)
(* in tenths and the final safety score in hundredths.                     *)
(***************************************************************************)
EXTENDS Integers, Sequences, FiniteSets, TLC

VARIABLES
    board,          \* Chess::board(): square -> piece record or None
    turn,           \* Chess::turn()
    sentinel,       \* whether the engine reports "no attackers" as <<None>>
    invalidStr,     \* what stringToSquare does with a string that names no square
    positioning,    \* the value the positioning heuristic yields on this snapshot
    mobility,       \* size of the engine's move list for the queried square
    pc,             \* position inside evaluateKingSafety
    callNo,         \* 1 during the first evaluation, 2 during the repeated one
    kingPosition,   \* local of evaluateKingSafety
    results,        \* value returned by each heuristic in the current call
    calls,          \* number of invocations of each heuristic in the current call
    safetyScore,    \* local accumulator, in hundredths
    outcome,        \* outcome of the current call
    firstOutcome,   \* outcome of the first call, kept for comparison
    gRank, gFile, gSq,  \* inputs of the square-geometry functions
    gPc, gCreated, gDecomposed, gRecreated, gSurrounding

evalVars == <<board, turn, sentinel, invalidStr, positioning, mobility, pc, callNo,
              kingPosition, results, calls, safetyScore, outcome, firstOutcome>>
geomVars == <<gRank, gFile, gSq, gPc, gCreated, gDecomposed, gRecreated, gSurrounding>>
vars == <<evalVars, geomVars>>

None == "none"          \* std::nullopt where a piece kind or colour is expected
NoSquare == -1          \* std::nullopt where a square is expected; a local not yet set
Throws == -2            \* stringToSquare raising an exception
Squares == 0..63

WHITE == "w"
BLACK == "b"
PAWN == "P"
KNIGHT == "N"
BISHOP == "B"
ROOK == "R"
QUEEN == "Q"
KING == "K"
PieceSymbols == {PAWN, KNIGHT, BISHOP, ROOK, QUEEN, KING}

(***************************************************************************)
(* Square geometry                                                         *)
(***************************************************************************)
getPieceValue(p) ==
    CASE p = PAWN -> 1
      [] p = BISHOP -> 3
      [] p = KNIGHT -> 3
      [] p = QUEEN -> 9
      [] p = ROOK -> 5
      [] p = KING -> 200

getRank(sq) == sq \div 8

getFile(sq) == sq % 8

\* createSquare with the file test dropped
createSquareNoFileCheck(rank, file) ==
    IF rank >= 0 /\ rank < 8 THEN rank * 8 + file ELSE NoSquare

\* createSquare with the upper rank test off by one
createSquareInclusive(rank, file) ==
    IF rank >= 0 /\ rank <= 8 /\ file >= 0 /\ file < 8
    THEN rank * 8 + file
    ELSE NoSquare

createSquare(rank, file) ==
    IF rank >= 0 /\ rank < 8 /\ file >= 0 /\ file < 8
    THEN rank * 8 + file
    ELSE NoSquare

offsets == << <<-1, -1>>, <<-1, 0>>, <<-1, 1>>,
              <<0, -1>>,             <<0, 1>>,
              <<1, -1>>,  <<1, 0>>,  <<1, 1>> >>

Present(x) == x # NoSquare

getSurroundingSquares(sq) ==
    LET rank == getRank(sq)
        file == getFile(sq)
        neighbor == [i \in 1..8 |->
                        createSquare(rank + offsets[i][1], file + offsets[i][2])]
    IN SelectSeq(neighbor, Present)

(***************************************************************************)
(* The engine's snapshot: pieces, attacks, square names                    *)
(***************************************************************************)
Piece(t, c) == [type |-> t, color |-> c]
Empty == Piece(None, None)      \* no piece: an empty std::optional

\* Chess::board(): eight rows (rank 8 first) of eight optional
\* (square, pieceSymbol, color) entries; an entry of type None is an empty one.
BoardGrid(b) ==
    [r \in 0..7 |-> [f \in 0..7 |->
        [square |-> r * 8 + f, type |-> b[r * 8 + f].type,
         color |-> b[r * 8 + f].color]]]

Abs(n) == IF n < 0 THEN -n ELSE n
Sign(n) == IF n < 0 THEN -1 ELSE IF n > 0 THEN 1 ELSE 0
MaxOf(a, c) == IF a > c THEN a ELSE c

\* The squares strictly between two squares of one line.
Between(from, to) ==
    LET dr == getRank(to) - getRank(from)
        df == getFile(to) - getFile(from)
        n  == MaxOf(Abs(dr), Abs(df))
    IN {from + k * (Sign(dr) * 8 + Sign(df)) : k \in 1..(n - 1)}

\* Whether the piece standing on `from` attacks `to`.
Attacks(b, from, to) ==
    LET dr == getRank(to) - getRank(from)
        df == getFile(to) - getFile(from)
        t  == b[from].type
        clear == \A s \in Between(from, to) : b[s] = Empty
        diagonal == Abs(dr) = Abs(df)
        straight == dr = 0 \/ df = 0
    IN /\ from # to
       /\ CASE t = PAWN   -> /\ Abs(df) = 1
                             /\ dr = (IF b[from].color = WHITE THEN -1 ELSE 1)
            [] t = KNIGHT -> {Abs(dr), Abs(df)} = {1, 2}
            [] t = KING   -> MaxOf(Abs(dr), Abs(df)) = 1
            [] t = BISHOP -> diagonal /\ clear
            [] t = ROOK   -> straight /\ clear
            [] t = QUEEN  -> (diagonal \/ straight) /\ clear

AttackerSquares(b, c, sq) ==
    {from \in Squares : b[from] # Empty /\ b[from].color = c /\ Attacks(b, from, sq)}

RECURSIVE SeqOfSet(_)
SeqOfSet(S) ==
    IF S = {} THEN <<>>
    ELSE LET m == CHOOSE x \in S : \A y \in S : x <= y
         IN <<m>> \o SeqOfSet(S \ {m})

\* Chess::getAttackingPieces(c, sq): the kinds of the pieces of colour c that
\* attack sq; "none" is reported as an empty list or as one null entry.
getAttackingPieces(b, nullEntry, c, sq) ==
    LET from == SeqOfSet(AttackerSquares(b, c, sq))
    IN IF Len(from) = 0
       THEN (IF nullEntry THEN <<None>> ELSE <<>>)
       ELSE [i \in 1..Len(from) |-> b[from[i]].type]

\* Chess::isAttacked(sq, attackedBy)
isAttacked(b, sq, attackedBy) == AttackerSquares(b, attackedBy, sq) # {}

\* SQUARES[sq]: file letter then rank digit, as character codes.
squareToString(sq) == <<97 + getFile(sq), 48 + (8 - getRank(sq))>>

\* std::to_string of a non-negative int, as character codes.
RECURSIVE to_string(_)
to_string(n) ==
    IF n < 10 THEN <<48 + n>> ELSE to_string(n \div 10) \o <<48 + (n % 10)>>

\* stringToSquare: the square whose name the string is; `fallback` is what the
\* engine does with any other string (Throws or a square).
stringToSquare(str, fallback) ==
    IF \E sq \in Squares : squareToString(sq) = str
    THEN CHOOSE sq \in Squares : squareToString(sq) = str
    ELSE fallback

(***************************************************************************)
(* The heuristics of src/main.cpp                                          *)
(***************************************************************************)
\* The first entry of the grid, in row order, whose square is sq.
pieceOnSquare(b, sq) ==
    LET grid == BoardGrid(b)
        hits == {i \in Squares : /\ grid[i \div 8][i % 8].type # None
                                 /\ grid[i \div 8][i % 8].square = sq}
    IN IF hits = {} THEN Empty
       ELSE LET i == CHOOSE x \in hits : \A y \in hits : x <= y
            IN Piece(grid[i \div 8][i % 8].type, grid[i \div 8][i % 8].color)

\* The three strings evaluatePawnShield hands to stringToSquare.
shieldStrings(kingPos, isWhite) ==
    LET direction == IF isWhite THEN 1 ELSE -1
        strKingPos == squareToString(kingPos)
    IN [i \in 1..3 |-> to_string(strKingPos[2] + direction)
                       \o to_string(strKingPos[1] + (i - 2))]

\* evaluatePawnShield: Throws when a stringToSquare call raises.
evaluatePawnShield(b, fallback, kingPos, isWhite) ==
    LET strs == shieldStrings(kingPos, isWhite)
        shieldSquares == [i \in 1..3 |-> stringToSquare(strs[i], fallback)]
    IN IF \E i \in 1..3 : shieldSquares[i] = Throws
       THEN Throws
       ELSE Cardinality({i \in 1..3 :
                pieceOnSquare(b, shieldSquares[i]) = Piece(PAWN, WHITE)})

\* Integer division of the piece value, as `getPieceValue(...) / 10` on ints.
attackerTerm(p) == getPieceValue(p) \div 10

RECURSIVE SumSeq(_)
SumSeq(s) == IF s = <<>> THEN 0 ELSE Head(s) + SumSeq(Tail(s))

\* evaluateEnemyAttacks, in tenths of a point.
evaluateEnemyAttacks(b, nullEntry, kingPos, isWhite) ==
    LET safetyZone == getSurroundingSquares(kingPos)
        opponentSide == IF isWhite THEN BLACK ELSE WHITE
        perSquare(sq) ==
            LET attackingPieces == getAttackingPieces(b, nullEntry, opponentSide, sq)
            IN IF attackingPieces = <<>> \/ attackingPieces[1] = None
               THEN 0
               ELSE SumSeq([i \in 1..Len(attackingPieces) |->
                        IF isAttacked(b, sq, opponentSide)
                        THEN attackerTerm(attackingPieces[i])
                        ELSE 0])
    IN 10 * SumSeq([i \in 1..Len(safetyZone) |-> perSquare(safetyZone[i])])

\* evaluateExposedKing: Throws when `.value()` meets an empty neighbour square.
evaluateExposedKing(b, kingPos, isWhite) ==
    LET squaresAroundKing == getSurroundingSquares(kingPos)
        currentColor == IF isWhite THEN WHITE ELSE BLACK
        opponentSide == IF currentColor = WHITE THEN BLACK ELSE WHITE
        exposed(sq) == \/ pieceOnSquare(b, sq).color # currentColor
                       \/ isAttacked(b, sq, opponentSide)
    IN IF \E i \in 1..Len(squaresAroundKing) :
              pieceOnSquare(b, squaresAroundKing[i]) = Empty
       THEN Throws
       ELSE Cardinality({i \in 1..Len(squaresAroundKing) :
                            exposed(squaresAroundKing[i])})

\* evaluateKingMobility: Throws when kingPos holds no piece.
evaluateKingMobility(b, moveCount, kingPos) ==
    IF pieceOnSquare(b, kingPos) = Empty THEN Throws ELSE moveCount

\* The open-files heuristic: files among file-1, file, file+1 without any pawn.
evaluateOpenFiles(b, kingPos) ==
    Cardinality({f \in 0..7 :
        /\ Abs(f - getFile(kingPos)) <= 1
        /\ \A r \in 0..7 : b[r * 8 + f].type # PAWN})

(***************************************************************************)
(* evaluateKingSafety, one step per statement group                        *)
(***************************************************************************)
\* Weights of evaluateKingSafety, in hundredths.
pawnShieldWeight == 100
exposedKingWeight == -50
enemyAttacksWeight == -20
kingPositioningWeight == -80
openFilesWeight == -100
mobilityWeight == 10

\* Bounds of the model.
MaxExtra == 1           \* pieces added to a base position
MaxRemoved == 1         \* pieces taken off the default position
MaxPositioning == 1     \* largest value of the positioning heuristic
MaxMobility == 1        \* largest size of the engine's move list
CoordSlack == 2         \* how far outside [0,7] createSquare's inputs reach

Unasked == NoSquare     \* an answer the engine has not been asked for yet
FallbackSquares == {0, 52}

Heuristics == {"pawnShield", "exposedKing", "enemyAttacks", "kingPositioning",
               "mobility", "openFiles"}

NoOutcome == [kind |-> "running", what |-> None, by |-> None, value |-> 0]
Returned(score) == [kind |-> "score", what |-> None, by |-> None, value |-> score]
Raised(h, what) == [kind |-> "exception", what |-> what, by |-> h, value |-> 0]

\* A king of any colour, whichever side is evaluated.
isKingOfAnySide(entry, isWhite) == entry.type = KING

\* The test of lines 139-142 on one entry of the grid.
isKingOfSide(entry, isWhite) ==
    /\ entry.type # None
    /\ entry.type = KING
    /\ \/ entry.color = WHITE /\ isWhite
       \/ entry.color = BLACK /\ ~isWhite

\* The loop of lines 137-144: in every row the first matching king sets
\* kingPosition and leaves the row; the rows after it are still scanned.
RECURSIVE scanRows(_, _, _, _)
scanRows(grid, r, isWhite, kingPos) ==
    IF r = 8 THEN kingPos
    ELSE LET hits == {f \in 0..7 : isKingOfSide(grid[r][f], isWhite)}
         IN scanRows(grid, r + 1, isWhite,
                     IF hits = {} THEN kingPos
                     ELSE grid[r][CHOOSE f \in hits : \A g \in hits : f <= g].square)

\* Lines 125-144. kingPosition is declared without an initial value: when no
\* entry matches, what is read afterwards is indeterminate.
FindKing ==
    /\ pc = "start"
    /\ LET found == scanRows(BoardGrid(board), 0, turn = WHITE, NoSquare)
       IN IF found = NoSquare
          THEN kingPosition' \in Squares
          ELSE kingPosition' = found
    /\ safetyScore' = 0
    /\ pc' = "pawnShield"
    /\ UNCHANGED <<board, turn, sentinel, invalidStr, positioning, mobility, callNo,
                   results, calls, outcome, firstOutcome, geomVars>>

\* One `safetyScore += weight * heuristic(...)` line: h is the heuristic, v what
\* its call yields (Throws when it raises what), next the following line.
Step(h, v, weight, what, next) ==
    /\ calls' = [calls EXCEPT ![h] = @ + 1]
    /\ IF v = Throws
       THEN /\ pc' = "failed"
            /\ outcome' = Raised(h, what)
            /\ UNCHANGED <<results, safetyScore>>
       ELSE /\ results' = [results EXCEPT ![h] = v]
            /\ safetyScore' = safetyScore + weight * v
            /\ IF next = "done"
               THEN /\ pc' = "done"
                    /\ outcome' = Returned(safetyScore + weight * v)
               ELSE /\ pc' = next
                    /\ UNCHANGED outcome
    /\ UNCHANGED <<board, turn, callNo, kingPosition, firstOutcome, geomVars>>

\* An answer of the engine that the snapshot fixes: asked for the first time it
\* is any value of `range`, and the same value whenever it is asked again.
Answer(known, v, range) == v \in range /\ (known = Unasked \/ known = v)

EvalPawnShield ==
    /\ pc = "pawnShield"
    /\ \E fallback \in {Throws} \cup FallbackSquares :
        /\ Answer(invalidStr, fallback, {Throws} \cup FallbackSquares)
        /\ invalidStr' = fallback
        /\ Step("pawnShield",
                evaluatePawnShield(board, fallback, kingPosition, turn = WHITE),
                pawnShieldWeight, "invalid_argument", "exposedKing")
    /\ UNCHANGED <<sentinel, positioning, mobility>>

EvalExposedKing ==
    /\ pc = "exposedKing"
    /\ Step("exposedKing", evaluateExposedKing(board, kingPosition, turn = WHITE),
            exposedKingWeight, "bad_optional_access", "enemyAttacks")
    /\ UNCHANGED <<sentinel, invalidStr, positioning, mobility>>

\* enemyAttacksWeight is per point and the heuristic's value is in tenths.
EvalEnemyAttacks ==
    /\ pc = "enemyAttacks"
    /\ \E nullEntry \in {0, 1} :
        /\ Answer(sentinel, nullEntry, {0, 1})
        /\ sentinel' = nullEntry
        /\ Step("enemyAttacks",
                evaluateEnemyAttacks(board, nullEntry = 1, kingPosition, turn = WHITE),
                enemyAttacksWeight \div 10, None, "kingPositioning")
    /\ UNCHANGED <<invalidStr, positioning, mobility>>

EvalPositioning ==
    /\ pc = "kingPositioning"
    /\ \E v \in 0..MaxPositioning :
        /\ Answer(positioning, v, 0..MaxPositioning)
        /\ positioning' = v
        /\ Step("kingPositioning", v, kingPositioningWeight, None, "mobility")
    /\ UNCHANGED <<sentinel, invalidStr, mobility>>

EvalKingMobility ==
    /\ pc = "mobility"
    /\ \E n \in 0..MaxMobility :
        /\ Answer(mobility, n, 0..MaxMobility)
        /\ mobility' = n
        /\ Step("mobility", evaluateKingMobility(board, n, kingPosition),
                mobilityWeight, "bad_optional_access", "openFiles")
    /\ UNCHANGED <<sentinel, invalidStr, positioning>>

EvalOpenFiles ==
    /\ pc = "openFiles"
    /\ Step("openFiles", evaluateOpenFiles(board, kingPosition),
            openFilesWeight, None, "done")
    /\ UNCHANGED <<sentinel, invalidStr, positioning, mobility>>

\* The caller evaluates the same, unchanged snapshot once more.
SecondCall ==
    /\ pc \in {"done", "failed"}
    /\ callNo = 1
    /\ callNo' = 2
    /\ firstOutcome' = outcome
    /\ outcome' = NoOutcome
    /\ kingPosition' = NoSquare
    /\ results' = [h \in Heuristics |-> 0]
    /\ calls' = [h \in Heuristics |-> 0]
    /\ safetyScore' = 0
    /\ pc' = "start"
    /\ UNCHANGED <<board, turn, sentinel, invalidStr, positioning, mobility, geomVars>>

(***************************************************************************)
(* Positions                                                               *)
(***************************************************************************)
backRank == <<ROOK, KNIGHT, BISHOP, QUEEN, KING, BISHOP, KNIGHT, ROOK>>

\* DEFAULT_POSITION, "rnbqkbnr/pppppppp/8/8/8/8/PPPPPPPP/RNBQKBNR w KQkq - 0 1"
DefaultBoard ==
    [sq \in Squares |->
        CASE sq < 8   -> Piece(backRank[sq + 1], BLACK)
          [] sq \in 8..15  -> Piece(PAWN, BLACK)
          [] sq \in 48..55 -> Piece(PAWN, WHITE)
          [] sq >= 56 -> Piece(backRank[sq - 55], WHITE)
          [] OTHER -> Empty]

\* A board holding only the two kings; NoSquare leaves that king out.
KingsOnly(wk, bk) ==
    [sq \in Squares |->
        IF sq = wk THEN Piece(KING, WHITE)
        ELSE IF sq = bk THEN Piece(KING, BLACK)
        ELSE Empty]

WhiteKingSquares == {60, 56, 20}        \* e1, a1, e6
BlackKingSquares == {4, 39, 58}         \* e8, h4, c1

BaseBoards ==
    {DefaultBoard, [DefaultBoard EXCEPT ![60] = Empty]}
    \cup {KingsOnly(wk, bk) : wk \in WhiteKingSquares, bk \in BlackKingSquares}
    \cup {KingsOnly(60, NoSquare), KingsOnly(NoSquare, 4),
          KingsOnly(NoSquare, NoSquare)}

\* Pieces an edited position may add: <<square, kind, colour>>.
ExtraPieces ==
    { <<51, PAWN, WHITE>>, <<52, PAWN, WHITE>>, <<53, PAWN, WHITE>>,
      <<44, QUEEN, BLACK>>, <<12, PAWN, BLACK>>, <<49, ROOK, BLACK>>,
      <<57, KNIGHT, WHITE>>, <<21, KNIGHT, BLACK>> }

\* Squares of the default position an edited position may clear.
RemovalSquares == {51, 52, 53, 59, 12}

Edited(base, removed, added) ==
    [sq \in Squares |->
        IF \E x \in added : x[1] = sq
        THEN LET x == CHOOSE y \in added : y[1] = sq IN Piece(x[2], x[3])
        ELSE IF sq \in removed THEN Empty
        ELSE base[sq]]

\* At most one piece per square: an added piece goes on a square that is empty,
\* and only pieces other than kings are taken off. The positions that lack a
\* king are taken as they are.
WellFormed(base, removed, added) ==
    /\ (removed # {} \/ added # {}) =>
          \A c \in {WHITE, BLACK} : \E sq \in Squares : base[sq] = Piece(KING, c)
    /\ \A x \in added : base[x[1]] = Empty \/ x[1] \in removed
    /\ \A x, y \in added : x[1] = y[1] => x = y
    /\ \A sq \in removed : base[sq] # Empty /\ base[sq].type # KING

GeomIdle ==
    /\ gRank = 0 /\ gFile = 0 /\ gSq = 0 /\ gPc = "idle"
    /\ gCreated = NoSquare /\ gDecomposed = <<0, 0>> /\ gRecreated = NoSquare
    /\ gSurrounding = <<>>

EvalIdle ==
    /\ board = [sq \in Squares |-> Empty]
    /\ turn = WHITE
    /\ sentinel = Unasked /\ invalidStr = Unasked
    /\ positioning = Unasked /\ mobility = Unasked
    /\ pc = "idle" /\ callNo = 1
    /\ kingPosition = NoSquare
    /\ results = [h \in Heuristics |-> 0]
    /\ calls = [h \in Heuristics |-> 0]
    /\ safetyScore = 0
    /\ outcome = NoOutcome /\ firstOutcome = NoOutcome

Init ==
    /\ \E base \in BaseBoards :
       \E removed \in {R \in SUBSET RemovalSquares : Cardinality(R) <= MaxRemoved} :
       \E added \in {A \in SUBSET ExtraPieces : Cardinality(A) <= MaxExtra} :
          /\ WellFormed(base, removed, added)
          /\ board = Edited(base, removed, added)
    /\ turn \in {WHITE, BLACK}
    /\ sentinel = Unasked /\ invalidStr = Unasked
    /\ positioning = Unasked /\ mobility = Unasked
    /\ pc = "start" /\ callNo = 1
    /\ kingPosition = NoSquare
    /\ results = [h \in Heuristics |-> 0]
    /\ calls = [h \in Heuristics |-> 0]
    /\ safetyScore = 0
    /\ outcome = NoOutcome /\ firstOutcome = NoOutcome
    /\ GeomIdle

Next ==
    \/ FindKing
    \/ EvalPawnShield
    \/ EvalExposedKing
    \/ EvalEnemyAttacks
    \/ EvalPositioning
    \/ EvalKingMobility
    \/ EvalOpenFiles
    \/ SecondCall

Spec == Init /\ [][Next]_vars

(***************************************************************************)
(* The square-geometry functions on their own                              *)
(***************************************************************************)
Coords == (0 - CoordSlack)..(7 + CoordSlack)

GeomInit ==
    /\ EvalIdle
    /\ gRank \in Coords /\ gFile \in Coords /\ gSq \in Squares
    /\ gPc = "input"
    /\ gCreated = NoSquare /\ gDecomposed = <<0, 0>> /\ gRecreated = NoSquare
    /\ gSurrounding = <<>>

\* createSquare(gRank, gFile)
CallCreateSquare ==
    /\ gPc = "input"
    /\ gCreated' = createSquare(gRank, gFile)
    /\ gPc' = "created"
    /\ UNCHANGED <<gRank, gFile, gSq, gDecomposed, gRecreated, gSurrounding, evalVars>>

\* getRank(gSq) and getFile(gSq)
CallGetRankFile ==
    /\ gPc = "created"
    /\ gDecomposed' = <<getRank(gSq), getFile(gSq)>>
    /\ gPc' = "decomposed"
    /\ UNCHANGED <<gRank, gFile, gSq, gCreated, gRecreated, gSurrounding, evalVars>>

\* createSquare(getRank(gSq), getFile(gSq))
CallRecreate ==
    /\ gPc = "decomposed"
    /\ gRecreated' = createSquare(gDecomposed[1], gDecomposed[2])
    /\ gPc' = "recreated"
    /\ UNCHANGED <<gRank, gFile, gSq, gCreated, gDecomposed, gSurrounding, evalVars>>

\* getSurroundingSquares(gSq)
CallSurrounding ==
    /\ gPc = "recreated"
    /\ gSurrounding' = getSurroundingSquares(gSq)
    /\ gPc' = "surrounded"
    /\ UNCHANGED <<gRank, gFile, gSq, gCreated, gDecomposed, gRecreated, evalVars>>

GeomNext ==
    \/ CallCreateSquare
    \/ CallGetRankFile
    \/ CallRecreate
    \/ CallSurrounding

SpecGeom == GeomInit /\ [][GeomNext]_vars

(***************************************************************************)
(* Properties                                                              *)
(***************************************************************************)
Opponent(c) == IF c = WHITE THEN BLACK ELSE WHITE

HasKing(b, c) == \E sq \in Squares : b[sq] = Piece(KING, c)

OneKingPerSide(b) ==
    \A c \in {WHITE, BLACK} : Cardinality({sq \in Squares : b[sq] = Piece(KING, c)}) = 1

\* The squares whose rank and file each differ from sq's by at most 1.
Adjacent(sq) ==
    {s \in Squares : /\ s # sq
                     /\ Abs((s \div 8) - (sq \div 8)) <= 1
                     /\ Abs((s % 8) - (sq % 8)) <= 1}

Range(seq) == {seq[i] : i \in 1..Len(seq)}

\* Heuristic h was called in the current evaluation and returned a value.
Completed(h) == calls[h] = 1 /\ ~(outcome.kind = "exception" /\ outcome.by = h)

Finished == pc \in {"done", "failed"}

\* C1: on a board with a king of the evaluated side, evaluateKingSafety calls each
\* of the six heuristics exactly once and returns exactly the weighted sum
\* 1.0*pawnShield - 0.5*exposedKing - 0.2*enemyAttacks - 0.8*kingPositioning
\* + 0.1*mobility - 1.0*openFiles (in hundredths; enemyAttacks is held in tenths).
AggregatorReturnsWeightedSum ==
    (Finished /\ HasKing(board, turn)) =>
        /\ outcome.kind = "score"
        /\ \A h \in Heuristics : calls[h] = 1
        /\ outcome.value = 100 * results["pawnShield"] - 50 * results["exposedKing"]
                           - 2 * results["enemyAttacks"] - 80 * results["kingPositioning"]
                           + 10 * results["mobility"] - 100 * results["openFiles"]

\* C2: with no king of the evaluated side on the board, evaluateKingSafety fails
\* with KingNotFound, returns no Score and evaluates no heuristic.
MissingKingFails ==
    ~HasKing(board, turn) =>
        /\ \A h \in Heuristics : calls[h] = 0
        /\ Finished => (outcome.kind = "exception" /\ outcome.what = "KingNotFound")

\* The pawns of `side` on the squares one rank in front of the king (towards
\* the opponent) on the king's file and the two files next to it.
ShieldSquares(kingPos, side) ==
    {s \in Squares : /\ (s \div 8) = (kingPos \div 8) + (IF side = WHITE THEN -1 ELSE 1)
                     /\ Abs((s % 8) - (kingPos % 8)) <= 1}

IntendedPawnShield(b, kingPos, side) ==
    Cardinality({s \in ShieldSquares(kingPos, side) : b[s] = Piece(PAWN, side)})

\* C3: for white and black alike, PawnShield returns the number (0..3) of the
\* on-board squares one rank in front of the king, on files file-1, file, file+1,
\* that hold a pawn of the king's own side.
PawnShieldCountsOwnPawns ==
    (HasKing(board, turn) /\ Completed("pawnShield")) =>
        /\ results["pawnShield"] = IntendedPawnShield(board, kingPosition, turn)
        /\ results["pawnShield"] \in 0..3

IntendedExposedKing(b, kingPos, side) ==
    Cardinality({s \in Adjacent(kingPos) :
        \/ (b[s] # Empty /\ b[s].color = Opponent(side))
        \/ isAttacked(b, s, Opponent(side))})

\* C4: on every board, also one with empty squares next to the king, ExposedKing
\* completes and returns the number of neighbour squares that hold an enemy
\* piece or are attacked by the opponent, each counted once: a value in 0..8,
\* at most 3 for a king in a corner.
ExposedKingCountsNeighbours ==
    (HasKing(board, turn) /\ calls["exposedKing"] = 1) =>
        /\ Completed("exposedKing")
        /\ results["exposedKing"] = IntendedExposedKing(board, kingPosition, turn)
        /\ results["exposedKing"] \in 0..8
        /\ kingPosition \in {0, 7, 56, 63} => results["exposedKing"] <= 3

\* Sum of the piece values of all attackers of all neighbour squares: the
\* intended score in tenths, pieceValue(attacker)/10 being a real number.
IntendedEnemyAttacks(b, kingPos, side) ==
    LET adj == SeqOfSet(Adjacent(kingPos))
        perSquare(sq) ==
            LET from == SeqOfSet(AttackerSquares(b, Opponent(side), sq))
            IN SumSeq([i \in 1..Len(from) |-> getPieceValue(b[from[i]].type)])
    IN SumSeq([i \in 1..Len(adj) |-> perSquare(adj[i])])

\* C5: EnemyAttacks is the sum, over every attacked neighbour square and every
\* attacker of it, of pieceValue(attacker)/10 as a real number (a queen attacking
\* two neighbour squares gives 1.8), and 0 when no neighbour square is attacked.
EnemyAttacksSumsRealValues ==
    (HasKing(board, turn) /\ Completed("enemyAttacks")) =>
        results["enemyAttacks"] = IntendedEnemyAttacks(board, kingPosition, turn)

\* C6: on the default initial position, white to move, the heuristics for the
\* white king on e1 give PawnShield = 3, ExposedKing = 0 and EnemyAttacks = 0.
StartingPositionScenario ==
    (board = DefaultBoard /\ turn = WHITE /\ pc # "start") =>
        /\ kingPosition = 60
        /\ Completed("pawnShield") => results["pawnShield"] = 3
        /\ Completed("exposedKing") => results["exposedKing"] = 0
        /\ Completed("enemyAttacks") => results["enemyAttacks"] = 0

\* C7: getSurroundingSquares(sq) returns exactly the on-board squares whose rank
\* and file each differ from sq's by at most 1, without sq and without
\* duplicates: 3 for a corner, 5 for another edge square, 8 for an interior one.
SurroundingSquaresExact ==
    gPc = "surrounded" =>
        LET onRankEdge == (gSq \div 8) \in {0, 7}
            onFileEdge == (gSq % 8) \in {0, 7}
        IN /\ Range(gSurrounding) = Adjacent(gSq)
           /\ Len(gSurrounding) = Cardinality(Adjacent(gSq))
           /\ Len(gSurrounding) = (IF onRankEdge /\ onFileEdge THEN 3
                                   ELSE IF onRankEdge \/ onFileEdge THEN 5
                                   ELSE 8)

\* The neighbours of the corner h1 have been enumerated: g2, h2, g1.
SurroundingSquaresWitness ==
    /\ gPc = "surrounded"
    /\ gSq = 63
    /\ gSurrounding = <<54, 55, 62>>

\* C8: two evaluations of the same unchanged snapshot end in the same outcome,
\* the identical Score or the identical error, also when the evaluated side has
\* no king on the board.
RepeatedCallSameOutcome ==
    (callNo = 2 /\ Finished) => outcome = firstOutcome

\* C9: with exactly one king per side, the king square evaluateKingSafety
\* resolves is the square of the king of the side to move, wherever the two
\* kings stand in the row-by-row scan.
ResolvesKingOfSideToMove ==
    (OneKingPerSide(board) /\ pc # "start") =>
        /\ kingPosition \in Squares
        /\ board[kingPosition] = Piece(KING, turn)

\* The other side's king comes first in the scan, in the same row, and the king
\* of the side to move has been resolved.
ResolvesKingWitness ==
    /\ OneKingPerSide(board)
    /\ pc = "pawnShield"
    /\ turn = BLACK
    /\ board[kingPosition] = Piece(KING, BLACK)
    /\ \E w \in Squares : /\ board[w] = Piece(KING, WHITE)
                          /\ w < kingPosition
                          /\ getRank(w) = getRank(kingPosition)

\* C10: createSquare(r, f) for r, f in [0,7] is a square of rank r and file f,
\* createSquare(getRank(sq), getFile(sq)) = sq for each of the 64 squares, and
\* createSquare yields no square when r or f lies outside [0,7].
SquareRoundTrip ==
    /\ gPc # "input" =>
          IF gRank \in 0..7 /\ gFile \in 0..7
          THEN /\ gCreated \in Squares
               /\ getRank(gCreated) = gRank
               /\ getFile(gCreated) = gFile
          ELSE gCreated = NoSquare
    /\ gPc \in {"decomposed", "recreated", "surrounded"} =>
          gDecomposed[1] \in 0..7 /\ gDecomposed[2] \in 0..7
    /\ gPc \in {"recreated", "surrounded"} => gRecreated = gSq

\* An out-of-range pair was refused and a square was taken apart and rebuilt.
SquareRoundTripWitness ==
    /\ gPc = "recreated"
    /\ gRank = 8 /\ gFile = 3 /\ gCreated = NoSquare
    /\ gSq = 37 /\ gDecomposed = <<4, 5>> /\ gRecreated = 37

====
